---- MODULE Spec2Model ----
(***************************************************************************)
(* The content synchronizer of the IGNUX site: the useContentManager hook  *)
(* (src/hooks/useContentManager.js).  The hook keeps a React state cell    *)
(* `content`, a `loading` flag and an `error` message, reads and writes    *)
(* localStorage under "ignux_<contentType>" and reads                      *)
(* "ignux_<contentType>_fallback", and talks to a remote endpoint when     *)
(* process.env.REACT_APP_API_URL is set.                                    *)
(*                                                                         *)
(* JavaScript runs every handler to its next `await`; each action below is *)
(* one such run.  A request that is awaited sits in `inflight` until the   *)
(* environment settles it.  The functions of a render close over the       *)
(* `content` value of that render: `visible` is that value, and Render     *)
(* brings it up to date with the state cell.                                *)
(***************************************************************************)
EXTENDS Integers, Sequences, FiniteSets, TLC

VARIABLES
    apiUrl,        \* process.env.REACT_APP_API_URL is set
    contentType,   \* the hook's argument in the current render
    content,       \* state cell of useState([]) : value of the latest setContent
    visible,       \* the `content` binding the current render's closures read
    loading,       \* state cell of useState(false)
    error,         \* state cell of useState(null)
    localStorage,  \* key -> stored value
    inflight,      \* awaited remote requests that have not settled yet
    clock,         \* the time the latest clock read returned, in milliseconds
    ncalls,        \* number of hook calls made so far (0: the mount effect has not run)
    last           \* what the latest step did (observation only)

vars == <<apiUrl, contentType, content, visible, loading, error,
          localStorage, inflight, clock, ncalls, last>>

----------------------------------------------------------------------------
(* Bounds of the model *)

MaxCalls == 3   \* at most this many hook calls in one behaviour

----------------------------------------------------------------------------
(* Values *)

ContentTypes == {"portfolio", "blog"}

null      == "null"        \* JavaScript null (useState(null), getItem of a missing key)
Undefined == "undefined"   \* JavaScript undefined as a field value

MetaFields == {"id", "createdAt", "updatedAt"}

\* Date.now().toString(): decimal milliseconds
DateNowString(t) == "170000000000" \o ToString(t)

\* new Date().toISOString()
ToISOString(t) == "2023-11-14T22:13:20.00" \o ToString(t) \o "Z"

\* localStorage keys
Key(T)         == "ignux_" \o T
FallbackKey(T) == "ignux_" \o T \o "_fallback"
Keys           == {Key(T) : T \in ContentTypes} \cup {FallbackKey(T) : T \in ContentTypes}

\* a timestamp of an earlier session
EarlierTime == "2023-01-01T00:00:00.000Z"

\* An item a remote response or an earlier session's cache carries for type T
StoredItem(T, n) ==
    [id |-> n, title |-> T, createdAt |-> EarlierTime, updatedAt |-> EarlierTime]

\* Bodies a successful GET <endpoint>/T may carry
Bodies(T) == { <<>>, <<StoredItem(T, "2"), StoredItem(T, "1")>> }

\* Fields a caller passes to addContent
NewItems == { [title |-> "Jane"], [title |-> Undefined], [title |-> "Jane", id |-> "1"] }

\* Fields a caller passes to updateContent
Patches == { [title |-> "Z"], [id |-> "1", createdAt |-> "1999"] }

\* An id no item carries
AbsentId == "42"

\* Stored strings: null for a missing key, a JSON text of a collection, or a
\* string that is not JSON
StoredNull      == [kind |-> "null", items |-> <<>>]
StoredGarbage   == [kind |-> "garbage", items |-> <<>>]

\* JSON.stringify drops fields whose value is undefined
StripUndefined(item) ==
    [k \in {f \in DOMAIN item : item[f] # Undefined} |-> item[k]]

JSONstringify(coll) ==
    [kind |-> "text", items |-> [i \in 1..Len(coll) |-> StripUndefined(coll[i])]]

\* JSON.parse throws a SyntaxError on a string that is not JSON
ParseThrows(s) == s.kind # "text"
JSONparse(s)   == s.items

\* `if (localContent)`: null and "" are falsy
Truthy(s) == s.kind # "null"

SyntaxErrorMessage == "Unexpected token"
NetworkErrorMessage == "Failed to fetch"

getItem(store, k)    == store[k]
setItem(store, k, v) == [store EXCEPT ![k] = v]

\* the key holds the JSON text of a collection
HoldsCollection(store, k) == Truthy(getItem(store, k)) /\ ~ParseThrows(getItem(store, k))

----------------------------------------------------------------------------
(* fetchContent *)

\* What a run of fetchContent leaves: the content, error and storage it ends
\* with, and whether the promise it returned rejects.

\* the catch block reading the primary key instead of the fallback key
CatchResultFromPrimary(T, msg, cur, store) ==
    LET fallback == getItem(store, Key(T)) IN
    [ content |-> IF Truthy(fallback) /\ ~ParseThrows(fallback)
                  THEN JSONparse(fallback) ELSE cur,
      error   |-> msg,
      store   |-> store,
      threw   |-> Truthy(fallback) /\ ParseThrows(fallback) ]

\* lines 31-39: catch (err) { setError(err.message); read the fallback key }.
\* JSON.parse(fallback) is inside the catch block: when it throws, nothing
\* catches it.
CatchResult(T, msg, cur, store) ==
    LET fallback == getItem(store, FallbackKey(T)) IN
    [ content |-> IF Truthy(fallback) /\ ~ParseThrows(fallback)
                  THEN JSONparse(fallback) ELSE cur,
      error   |-> msg,
      store   |-> store,
      threw   |-> Truthy(fallback) /\ ParseThrows(fallback) ]

\* CacheResult without the read of the primary key
CacheResultUnread(T, cur, err, store) ==
    [content |-> cur, error |-> err, store |-> store, threw |-> FALSE]

\* lines 25-29: read the primary key
CacheResult(T, cur, err, store) ==
    LET localContent == getItem(store, Key(T)) IN
    IF ~Truthy(localContent)
    THEN [content |-> cur, error |-> err, store |-> store, threw |-> FALSE]
    ELSE IF ParseThrows(localContent)
    THEN CatchResult(T, SyntaxErrorMessage, cur, store)
    ELSE [content |-> JSONparse(localContent), error |-> err,
          store |-> store, threw |-> FALSE]

\* RemoteResult that adds the body to the cached collection
RemoteResultMerged(T, data, err, store) ==
    [content |-> data, error |-> err,
     store |-> setItem(store, Key(T),
                       JSONstringify(JSONparse(getItem(store, Key(T))) \o data)),
     threw |-> FALSE]

\* RemoteResult that also keeps the body as the last known good collection
RemoteResultPromoted(T, data, err, store) ==
    [content |-> data, error |-> err,
     store |-> setItem(setItem(store, Key(T), JSONstringify(data)),
                       FallbackKey(T), JSONstringify(data)),
     threw |-> FALSE]

\* RemoteResult that caches the body under the type the hook shows now
RemoteResultUnderCurrent(T, data, err, store) ==
    [content |-> data, error |-> err,
     store |-> setItem(store, Key(contentType), JSONstringify(data)), threw |-> FALSE]

\* RemoteResult of a fetch that clears the error of an earlier failure
RemoteResultClearsError(T, data, err, store) ==
    [content |-> data, error |-> null,
     store |-> setItem(store, Key(T), JSONstringify(data)), threw |-> FALSE]

\* lines 16-22: response.ok, the body parsed to data
RemoteResult(T, data, err, store) ==
    [content |-> data, error |-> err,
     store |-> setItem(store, Key(T), JSONstringify(data)), threw |-> FALSE]

\* what the remote end does with a GET
FetchOutcomes(T) ==
    {[kind |-> "ok", body |-> b] : b \in Bodies(T)}
    \cup {[kind |-> k, body |-> <<>>] : k \in {"badbody", "non2xx", "netfail"}}

\* SettledResult that drops the answer when the hook has moved to another type
SettledResultIfCurrent(T, o, cur, err, store) ==
    IF T # contentType
    THEN [content |-> cur, error |-> err, store |-> store, threw |-> FALSE]
    ELSE CASE o.kind = "ok"      -> RemoteResult(T, o.body, err, store)
           [] o.kind = "badbody" -> CatchResult(T, SyntaxErrorMessage, cur, store)
           [] o.kind = "netfail" -> CatchResult(T, NetworkErrorMessage, cur, store)
           [] o.kind = "non2xx"  -> CacheResult(T, cur, err, store)

\* lines 15-29 once the awaited GET has settled with outcome o
SettledResult(T, o, cur, err, store) ==
    CASE o.kind = "ok"      -> RemoteResult(T, o.body, err, store)
      [] o.kind = "badbody" -> CatchResult(T, SyntaxErrorMessage, cur, store)
      [] o.kind = "netfail" -> CatchResult(T, NetworkErrorMessage, cur, store)
      [] o.kind = "non2xx"  -> CacheResult(T, cur, err, store)

\* fetchContent without its finally block
FinallySkipped == TRUE

\* lines 40-42: finally { setLoading(false) }
FinallyLoading == FALSE

Phase(threw) == IF threw THEN "threw" ELSE "returned"

\* the record of a step: the operation, the type it ran for, whether its
\* promise is pending, fulfilled or rejected, what the remote end answered,
\* the body of a successful GET (for an add: the fields it was called with
\* and the id of the item that an add returned just before, which no render
\* has shown to this call) and the id the call is about
Step(op, T, phase, outcome, body, id) ==
    [op |-> op, type |-> T, phase |-> phase, outcome |-> outcome, body |-> body, id |-> id]

\* a request carries the number of the call that made it
Request(op, T, id) == [call |-> ncalls + 1, op |-> op, type |-> T, id |-> id]

\* The continuation of an awaited POST, PUT or DELETE reads and writes no state
\* of the hook, so its place among the other steps changes nothing: it is taken
\* before any other step.
WritePending == \E r \in inflight : r.op # "fetch"

\* a request sent whatever the setting
UsesApiAlways(url) == TRUE

\* lines 14, 61, 87, 106: if (process.env.REACT_APP_API_URL)
UsesApi(url) == url

\* lines 9-43, up to the first await (or to the end when no endpoint is set)
FetchContent(T) ==
    /\ ~WritePending
    /\ ncalls' = ncalls + 1
    /\ IF UsesApi(apiUrl)
       THEN /\ loading' = TRUE
            /\ inflight' = inflight \cup {Request("fetch", T, "")}
            /\ last' = Step("fetch", T, "pending", "none", <<>>, "")
            /\ UNCHANGED <<content, error, localStorage>>
       ELSE LET r == CacheResult(T, content, error, localStorage) IN
            /\ content' = r.content
            /\ error' = r.error
            /\ localStorage' = r.store
            /\ loading' = FinallyLoading
            /\ last' = Step("fetch", T, Phase(r.threw), "none", <<>>, "")
            /\ UNCHANGED inflight
    /\ UNCHANGED <<apiUrl, clock>>

\* the awaited GET settles and fetchContent runs to its end
FetchSettle ==
    \E req \in inflight :
      /\ ~WritePending
      /\ req.op = "fetch"
      /\ \E o \in FetchOutcomes(req.type) :
           LET r == SettledResult(req.type, o, content, error, localStorage) IN
           /\ content' = r.content
           /\ error' = r.error
           /\ localStorage' = r.store
           /\ loading' = FinallyLoading
           /\ last' = Step("fetch", req.type, Phase(r.threw), o.kind, o.body, "")
      /\ inflight' = inflight \ {req}
      /\ UNCHANGED <<apiUrl, contentType, visible, clock, ncalls>>

\* lines 117-119 on mount: the effect runs fetchContent
Mount ==
    /\ ncalls = 0
    /\ FetchContent(contentType)
    /\ UNCHANGED <<contentType, visible>>

\* refetch: fetchContent called by the UI
Refetch ==
    /\ ncalls > 0
    /\ ncalls < MaxCalls
    /\ FetchContent(contentType)
    /\ UNCHANGED <<contentType, visible>>

\* lines 117-119: the argument changes, the hook renders with it and the
\* effect runs fetchContent for the new type
ChangeType ==
    \E T \in ContentTypes \ {contentType} :
      /\ ncalls > 0
      /\ ncalls < MaxCalls
      /\ contentType' = T
      /\ visible' = content
      /\ FetchContent(T)

----------------------------------------------------------------------------
(* addContent, updateContent, deleteContent *)

\* Milliseconds that may pass before a clock read, and the clock values
\* explored.  addContent reads the clock three times; a millisecond may pass
\* before its first read (the id) and before its third (updatedAt), the second
\* read (createdAt) is taken in the millisecond of the first.  updateContent
\* reads the clock once, in the millisecond of the latest read.
Elapsed == {0, 1}
Times   == {0, 1}

\* the item without the spread of the caller's fields
ItemWithMetaOnly(newItem, t0, t1, t2) ==
    [k \in MetaFields |->
       CASE k = "id"        -> DateNowString(t0)
         [] k = "createdAt" -> ToISOString(t1)
         [] k = "updatedAt" -> ToISOString(t2)]

\* lines 47-52: { ...newItem, id, createdAt, updatedAt }, three clock reads
ItemWithMeta(newItem, t0, t1, t2) ==
    [k \in DOMAIN newItem \cup MetaFields |->
       CASE k = "id"        -> DateNowString(t0)
         [] k = "createdAt" -> ToISOString(t1)
         [] k = "updatedAt" -> ToISOString(t2)
         [] OTHER           -> newItem[k]]

\* the new item put last
PutLast(item, coll) == coll \o <<item>>

\* the item put in front of the latest state (setContent(prev => [item, ...prev]))
PrependToLatest(item, coll) == <<item>> \o content

\* line 54: [itemWithMeta, ...content]
Prepend(item, coll) == <<item>> \o coll

\* the spreads in the other order: { ...updates, ...item, updatedAt }
MergeUnder(item, updates, t) ==
    [k \in DOMAIN item \cup DOMAIN updates \cup {"updatedAt"} |->
       IF k = "updatedAt" THEN ToISOString(t)
       ELSE IF k \in DOMAIN item THEN item[k]
       ELSE updates[k]]

\* line 80: { ...item, ...updates, updatedAt }
Merge(item, updates, t) ==
    [k \in DOMAIN item \cup DOMAIN updates \cup {"updatedAt"} |->
       IF k = "updatedAt" THEN ToISOString(t)
       ELSE IF k \in DOMAIN updates THEN updates[k]
       ELSE item[k]]

\* the map without the test of the id
MapUpdateAll(coll, id, updates, t) ==
    [i \in 1..Len(coll) |-> Merge(coll[i], updates, t)]

\* lines 78-82: content.map(item => item.id === id ? merged : item)
MapUpdate(coll, id, updates, t) ==
    [i \in 1..Len(coll) |-> IF coll[i].id = id THEN Merge(coll[i], updates, t) ELSE coll[i]]

\* line 102: content.filter(item => item.id !== id)
KeepsItem(item, id) == item.id # id
FilterOut(coll, id) == SelectSeq(coll, LAMBDA item : KeepsItem(item, id))

\* the request sent first: with an endpoint, content and the cache are not
\* touched before the await
CommitAfterRequest(op, updatedContent, id, fields) ==
    /\ ~WritePending
    /\ ncalls' = ncalls + 1
    /\ IF UsesApi(apiUrl)
       THEN /\ inflight' = inflight \cup {Request(op, contentType, id)}
            /\ last' = Step(op, contentType, "pending", "none", fields, id)
            /\ UNCHANGED <<content, localStorage>>
       ELSE /\ inflight' = inflight
            /\ last' = Step(op, contentType, "returned", "none", fields, id)
            /\ content' = updatedContent
            /\ localStorage' = setItem(localStorage, Key(contentType), JSONstringify(updatedContent))
    /\ UNCHANGED <<apiUrl, contentType, visible, loading, error>>

\* lines 55-58, 84-85, 103-104: setContent(updatedContent); localStorage.setItem(...)
\* lines 61-67, 87-93, 106-110: the request, when an endpoint is set
Commit(op, updatedContent, id, fields) ==
    /\ ~WritePending
    /\ content' = updatedContent
    /\ localStorage' = setItem(localStorage, Key(contentType), JSONstringify(updatedContent))
    /\ ncalls' = ncalls + 1
    /\ IF UsesApi(apiUrl)
       THEN /\ inflight' = inflight \cup {Request(op, contentType, id)}
            /\ last' = Step(op, contentType, "pending", "none", fields, id)
       ELSE /\ inflight' = inflight
            /\ last' = Step(op, contentType, "returned", "none", fields, id)
    /\ UNCHANGED <<apiUrl, contentType, visible, loading, error>>

\* ids a caller may pass: those of the rendered items, and one that no item carries
CallerIds == {visible[i].id : i \in 1..Len(visible)} \cup {AbsentId}

\* the id of the item the directly preceding add returned: no render has run
\* since, so the call that starts now does not see that item
UnseenAdd == IF last.op = "add" /\ last.phase = "returned" THEN last.id ELSE ""

\* lines 45-74, up to the await
AddContent ==
    \E newItem \in NewItems, e \in Elapsed, d \in Elapsed :
      LET t0 == clock + e
          t1 == t0
          t2 == t1 + d
          itemWithMeta == ItemWithMeta(newItem, t0, t1, t2)
      IN
      /\ 0 < ncalls /\ ncalls < MaxCalls
      /\ t2 \in Times
      /\ clock' = t2
      /\ Commit("add", Prepend(itemWithMeta, visible), itemWithMeta.id, <<newItem, UnseenAdd>>)

\* lines 76-98, up to the await
UpdateContent ==
    \E id \in CallerIds, updates \in Patches :
      LET t == clock IN
      /\ 0 < ncalls /\ ncalls < MaxCalls
      /\ t \in Times
      /\ clock' = t
      /\ Commit("update", MapUpdate(visible, id, updates, t), id, <<>>)

\* lines 100-115, up to the await
DeleteContent ==
    \E id \in CallerIds :
      /\ 0 < ncalls /\ ncalls < MaxCalls
      /\ clock' = clock
      /\ Commit("remove", FilterOut(visible, id), id, <<>>)

\* what the remote end does with a POST, PUT or DELETE
WriteOutcomes == {"ok", "non2xx", "netfail"}

\* a catch block that does not rethrow
WriteSwallows(outcome) == FALSE

\* `await fetch(...)` rejects on a network failure only; the response is not inspected
WriteThrows(outcome) == outcome = "netfail"

\* a settlement that undoes the optimistic change in memory when the request
\* raised
WriteSettleRollsBack ==
    \E req \in inflight, outcome \in WriteOutcomes :
      /\ req.op \in {"add", "update", "remove"}
      /\ inflight' = inflight \ {req}
      /\ last' = Step(req.op, req.type, Phase(WriteThrows(outcome)), outcome, last.body, req.id)
      /\ content' = IF WriteThrows(outcome) THEN visible ELSE content
      /\ UNCHANGED <<apiUrl, contentType, visible, loading, error,
                     localStorage, clock, ncalls>>

\* lines 62-73, 88-97, 107-114: the awaited request settles
WriteSettle ==
    \E req \in inflight, outcome \in WriteOutcomes :
      /\ req.op \in {"add", "update", "remove"}
      /\ inflight' = inflight \ {req}
      /\ last' = Step(req.op, req.type, Phase(WriteThrows(outcome)), outcome, last.body, req.id)
      /\ UNCHANGED <<apiUrl, contentType, content, visible, loading, error,
                     localStorage, clock, ncalls>>

----------------------------------------------------------------------------
(* React *)

\* a render: the closures handed to the UI read the current state cell
Render ==
    /\ ~WritePending
    /\ visible # content
    /\ visible' = content
    /\ last' = Step("render", contentType, "returned", "none", <<>>, "")
    /\ UNCHANGED <<apiUrl, contentType, content, loading, error, localStorage,
                   inflight, clock, ncalls>>

----------------------------------------------------------------------------

\* what an earlier session may have left under a key of type T

\* the stores explored: every combination of primary and fallback condition,
\* the same condition for each content type, and one store where the types differ
StoreKinds == {"null", "garbage", "text"}
StoreOf(kind, items) ==
    CASE kind = "null"    -> StoredNull
      [] kind = "garbage" -> StoredGarbage
      [] kind = "text"    -> JSONstringify(items)
InitialStore(pk, fk) ==
    [k \in Keys |->
       LET T == CHOOSE U \in ContentTypes : k \in {Key(U), FallbackKey(U)} IN
       IF k = Key(T) THEN StoreOf(pk, <<StoredItem(T, "1")>>)
                     ELSE StoreOf(fk, <<StoredItem(T, "3")>>)]
\* a store in which only the first type has anything
PortfolioOnlyStore ==
    [k \in Keys |->
       IF k = Key("portfolio") THEN JSONstringify(<<StoredItem("portfolio", "1")>>)
                               ELSE StoredNull]
InitialStores ==
    {InitialStore(pk, fk) : pk \in StoreKinds, fk \in StoreKinds} \cup {PortfolioOnlyStore}

Init ==
    /\ apiUrl \in BOOLEAN
    /\ contentType = "portfolio"
    /\ content = <<>>
    /\ visible = <<>>
    /\ loading = FALSE
    /\ error = null
    /\ localStorage \in InitialStores
    /\ inflight = {}
    /\ clock = 0
    /\ ncalls = 0
    /\ last = Step("none", "portfolio", "returned", "none", <<>>, "")

Next ==
    \/ Mount
    \/ Refetch
    \/ ChangeType
    \/ FetchSettle
    \/ AddContent
    \/ UpdateContent
    \/ DeleteContent
    \/ WriteSettle
    \/ Render

Spec == Init /\ [][Next]_vars

\* The hook as a reader drives it (the effect, refetch and type changes; none
\* of them reads the rendered content), with every awaited GET eventually
\* resolving or rejecting
FetchNext ==
    \/ Mount
    \/ Refetch
    \/ ChangeType
    \/ FetchSettle

FetchSpec == Init /\ [][FetchNext]_vars /\ WF_vars(FetchSettle)

----------------------------------------------------------------------------
(* The API client (src/services/api.js).  The client keeps no state between *)
(* calls, so its calls are explored one at a time; the request in flight   *)
(* sits in `inflight` and `last` records what the call did.                 *)

ApiOps == {"submitContact", "createBooking", "getBookings", "getServices",
           "getTestimonials", "generateWhatsAppLink", "requestQuote",
           "subscribeNewsletter"}

\* line 2: process.env.REACT_APP_API_URL || 'http://localhost:8000/api/v1'
API_BASE_URL(url) == IF url THEN "https://api.ignux.example" ELSE "http://localhost:8000/api/v1"

\* the optional argument of getBookings, getServices and getTestimonials
ApiArgs == {"", "wedding"}

\* lines 11, 28, 45, 57, 68, 85, 98, 115: the URL of the request
Endpoint(op, arg) ==
    CASE op = "submitContact"        -> "/contacts/"
      [] op = "createBooking"        -> "/bookings/"
      [] op = "getBookings"          -> "/bookings/?" \o (IF arg = "" THEN "" ELSE "status=" \o arg)
      [] op = "getServices"          -> "/services/" \o (IF arg = "" THEN "" ELSE "?category=" \o arg)
      [] op = "getTestimonials"      -> "/services/testimonials/" \o (IF arg = "" THEN "" ELSE "?featured_only=true")
      [] op = "generateWhatsAppLink" -> "/contacts/whatsapp"
      [] op = "requestQuote"         -> "/contacts/quick-quote"
      [] op = "subscribeNewsletter"  -> "/services/newsletter/subscribe"

WhatsAppUrl == "https://wa.me/254750077424"

\* JSON objects the server may answer with
ApiBodies == { [data |-> [whatsapp_url |-> WhatsAppUrl]],
               [data |-> [reference |-> "Q-7"]],
               [detail |-> "Not found"] }

\* what the remote end does with a request: a status and a body that parses
\* or not, or no answer at all
ApiAnswers ==
    {[kind |-> k, parses |-> TRUE, body |-> b] : k \in {"ok", "non2xx"}, b \in ApiBodies}
    \cup {[kind |-> k, parses |-> FALSE, body |-> <<>>] : k \in {"ok", "non2xx"}}
    \cup {[kind |-> "netfail", parses |-> FALSE, body |-> <<>>]}

\* lines 19-23 (and 36-40, 47-51, 59-63, 70-74, 106-110, 123-127):
\* if (!response.ok) throw ...; return await response.json()
CheckedResult(a) ==
    IF a.kind # "ok" \/ ~a.parses
    THEN [threw |-> TRUE, value |-> Undefined]
    ELSE [threw |-> FALSE, value |-> a.body]

\* lines 85-93: fetch(...).then(response => response.json())
\*                        .then(data => data.data.whatsapp_url)
WhatsAppResult(a) ==
    IF a.kind = "netfail" \/ ~a.parses \/ "data" \notin DOMAIN a.body
    THEN [threw |-> TRUE, value |-> Undefined]
    ELSE [threw |-> FALSE,
          value |-> IF "whatsapp_url" \in DOMAIN a.body.data
                    THEN a.body.data.whatsapp_url ELSE Undefined]

ApiResult(op, a) ==
    IF op = "generateWhatsAppLink" THEN WhatsAppResult(a) ELSE CheckedResult(a)

\* a method of the client runs up to its await
ApiCall ==
    \E op \in ApiOps, arg \in ApiArgs :
      LET url == API_BASE_URL(apiUrl) \o Endpoint(op, arg) IN
      /\ inflight = {}
      /\ ncalls < MaxCalls
      /\ ncalls' = ncalls + 1
      /\ inflight' = {Request(op, url, "")}
      /\ last' = Step(op, url, "pending", "none", <<>>, "")
      /\ UNCHANGED <<apiUrl, contentType, content, visible, loading, error,
                     localStorage, clock>>

\* the request settles and the method runs to its end; `body` holds the body
\* of the answer and what the caller gets
ApiSettle ==
    \E req \in inflight, a \in ApiAnswers :
      LET r == ApiResult(req.op, a) IN
      /\ inflight' = {}
      /\ last' = Step(req.op, req.type, Phase(r.threw), a.kind, <<a.body, r.value>>, "")
      /\ UNCHANGED <<apiUrl, contentType, content, visible, loading, error,
                     localStorage, clock, ncalls>>

ApiInit ==
    /\ Init
    /\ localStorage = InitialStore("null", "null")

ApiNext ==
    \/ ApiCall
    \/ ApiSettle

ApiSpec == ApiInit /\ [][ApiNext]_vars

----------------------------------------------------------------------------
(* Properties of fetchContent *)

Writes == {"add", "update", "remove"}

PrimaryOf(T) == getItem(localStorage, Key(T))

\* C1: with no remote endpoint configured and a collection C stored under the
\* primary key of T, fetch(T) ends with content equal to exactly C, whatever
\* content held before.
C1_CacheOnlyFetchYieldsCache ==
    (~apiUrl /\ last.op = "fetch" /\ HoldsCollection(localStorage, Key(last.type)))
        => content = JSONparse(PrimaryOf(last.type))

\* a cache-only fetch for the second type has replaced the first type's content
C1_Witness ==
    /\ ~apiUrl
    /\ last.op = "fetch"
    /\ last.type = "blog"
    /\ ncalls > 1
    /\ HoldsCollection(localStorage, Key("blog"))
    /\ content = <<StoredItem("blog", "1")>>

\* C2: when GET <endpoint>/T answers successfully with body B, fetch(T) ends
\* with content = B, with the primary cache of T holding B alone (overwritten,
\* not merged) and with loading = false; B may be the empty collection.
C2_RemoteFetchOverwritesCache ==
    (last.op = "fetch" /\ last.outcome = "ok")
        => /\ content = last.body
           /\ PrimaryOf(last.type) = JSONstringify(last.body)
           /\ loading = FALSE
           /\ last.phase = "returned"

\* a successful GET with the empty body has emptied content and the cache
C2_Witness ==
    /\ last.op = "fetch"
    /\ last.outcome = "ok"
    /\ last.body = <<>>
    /\ content = <<>>
    /\ PrimaryOf(last.type) = JSONstringify(<<>>)
    /\ ~loading

\* C3: when the GET for T fails at the network level and the primary cache of T
\* holds a collection C, fetch(T) ends with content = C and error set to the
\* failure message.
C3_NetworkFailureYieldsPrimaryCache ==
    (last.op = "fetch" /\ last.outcome = "netfail"
       /\ HoldsCollection(localStorage, Key(last.type)))
        => /\ content = JSONparse(PrimaryOf(last.type))
           /\ error = NetworkErrorMessage

\* C4: fetch never raises to its caller, for every endpoint configuration,
\* remote outcome and cache contents.
C4_FetchNeverRaises ==
    last.op = "fetch" => last.phase # "threw"

\* line 15: some fetchContent call is suspended at its await
FetchPending == \E r \in inflight : r.op = "fetch"

\* C5: every fetch sets loading = true when it starts and, provided its remote
\* call resolves or rejects, sets loading = false when it ends, on every path
\* (also when reading the fallback cache raises).  A behaviour holds finitely
\* many calls, so every suspended fetch ends exactly when eventually none is
\* suspended any more.
C5_LoadingSetThenCleared ==
    /\ [](last.op = "fetch" /\ last.phase = "pending" => loading = TRUE)
    /\ [](last.op = "fetch" /\ last.phase # "pending" => loading = FALSE)
    /\ <>[](~FetchPending)

\* a fetch whose read of the fallback key raised has ended with loading = false
C5_Witness ==
    /\ last.op = "fetch"
    /\ last.outcome = "netfail"
    /\ last.phase = "threw"
    /\ loading = FALSE

----------------------------------------------------------------------------
(* Properties of addContent, updateContent and deleteContent *)

IdAbsent(coll, id) == \A i \in 1..Len(coll) : coll[i].id # id

Rest(coll) == SubSeq(coll, 2, Len(coll))

HoldsMutation ==
    CASE last.op = "add"    -> /\ content # <<>>
                               /\ content[1].id = last.id
                               /\ Rest(content) = visible
      [] last.op = "remove" -> content = FilterOut(visible, last.id)
      [] last.op = "update" -> \E updates \in Patches, t \in Times :
                                   content = MapUpdate(visible, last.id, updates, t)
      [] OTHER              -> FALSE

\* C7: when the remote request of add, update or remove fails at the network
\* level, the operation raises, and content and the primary cache still hold
\* the mutated collection.
C7_WriteFailureRaisesWithoutRollback ==
    (last.op \in Writes /\ last.outcome = "netfail")
        => /\ last.phase = "threw"
           /\ HoldsMutation
           /\ PrimaryOf(last.type) = JSONstringify(content)

\* an update of a present id has raised and its change is still in place
C7_Witness ==
    /\ last.op = "update"
    /\ last.outcome = "netfail"
    /\ last.phase = "threw"
    /\ ~IdAbsent(visible, last.id)
    /\ content # visible
    /\ PrimaryOf(last.type) = JSONstringify(content)

\* C8: when the remote POST, PUT or DELETE answers with a non-2xx status, the
\* operation raises an error to its caller.
C8_WriteNon2xxRaises ==
    (last.op \in Writes /\ last.outcome = "non2xx") => last.phase = "threw"

RECURSIVE IsSubsequence(_, _)
IsSubsequence(sub, coll) ==
    IF sub = <<>> THEN TRUE
    ELSE IF coll = <<>> THEN FALSE
    ELSE IF Head(sub) = Head(coll) THEN IsSubsequence(Tail(sub), Tail(coll))
    ELSE IsSubsequence(sub, Tail(coll))

\* C10: remove of an id present in the collection yields content one shorter,
\* in which no item has that id and the other items keep values and order.
C10_RemoveDropsExactlyOne ==
    (last.op = "remove" /\ ~IdAbsent(visible, last.id))
        => /\ Len(content) = Len(visible) - 1
           /\ IdAbsent(content, last.id)
           /\ IsSubsequence(content, visible)

----------------------------------------------------------------------------
(* Properties of the cache *)

\* the fields of an item that the hook does not manage
NonMeta(item) == [k \in DOMAIN item \ MetaFields |-> item[k]]

\* what a reader of the primary key of T gets, when it parses
CachedItems(T) == JSONparse(PrimaryOf(T))

\* C11 as stated: after add(T, item) the primary cache of T holds a collection
\* with an item whose non-metadata fields equal those of item, whether the POST
\* succeeds, fails, or no endpoint is set.
C11_AddRoundTrip ==
    last.op = "add"
        => /\ HoldsCollection(localStorage, Key(last.type))
           /\ \E i \in 1..Len(CachedItems(last.type)) :
                  NonMeta(CachedItems(last.type)[i]) = NonMeta(last.body[1])

\* C11 amended: after add(T, item) the primary cache of T holds a collection
\* with an item whose non-metadata fields are those fields of item that hold a
\* value; a field of item that holds undefined is not in the cached item.
C11_AddRoundTripOfDefinedFields ==
    last.op = "add"
        => /\ HoldsCollection(localStorage, Key(last.type))
           /\ \E i \in 1..Len(CachedItems(last.type)) :
                  NonMeta(CachedItems(last.type)[i]) = StripUndefined(NonMeta(last.body[1]))

\* an add whose POST failed at the network level has its fields in the cache,
\* in front of the items cached before
C11_Witness ==
    /\ last.op = "add"
    /\ last.outcome = "netfail"
    /\ last.body[1] = [title |-> "Jane"]
    /\ Len(CachedItems(last.type)) = 3
    /\ NonMeta(CachedItems(last.type)[1]) = [title |-> "Jane"]

----------------------------------------------------------------------------
(* Properties of a change of contentType *)

\* an item that was loaded for a type (from its endpoint or one of its keys)
\* carries the type in its title
LoadedUnder(item, T) == "title" \in DOMAIN item /\ item.title = T

\* C12: after contentType changed from A to B, once fetch(B) has completed,
\* content holds no item that was loaded under A, whatever B's cache gives
\* (stated without an endpoint, where no response of an earlier fetch can
\* arrive late).
C12_TypeChangeDiscardsContent ==
    (~apiUrl /\ last.op = "fetch" /\ last.phase # "pending" /\ last.type = contentType)
        => \A i \in 1..Len(content), A \in ContentTypes \ {contentType} :
              ~LoadedUnder(content[i], A)

----------------------------------------------------------------------------
(* Properties of the configuration *)

\* C13: when no remote base URL is configured, no sequence of fetch, add,
\* update, remove and type changes ever issues a network request.
C13_CacheOnlyIssuesNoRequest ==
    ~apiUrl => inflight = {}

\* without an endpoint, a fetch, a type change and a write have all run
C13_Witness ==
    /\ ~apiUrl
    /\ ncalls = MaxCalls
    /\ contentType = "blog"
    /\ last.op \in Writes
    /\ last.phase = "returned"
    /\ inflight = {}

----------------------------------------------------------------------------
(* Properties of the managed fields *)

UniqueIds(coll) ==
    \A i, j \in 1..Len(coll) : i # j => coll[i].id # coll[j].id

\* C14: in every reachable state no two items of content, and no two items of
\* the primary cache of the type, share an id, also when two adds run without
\* the clock advancing between them.
C14_IdsUnique ==
    /\ UniqueIds(content)
    /\ HoldsCollection(localStorage, Key(contentType)) => UniqueIds(CachedItems(contentType))

\* C15: every item created by add has createdAt equal to updatedAt, also when
\* the clock advances between the clock reads of add; on an empty collection
\* the created item is the sole element of content.
C15_CreatedAtEqualsUpdatedAt ==
    last.op = "add"
        => /\ content[1].createdAt = content[1].updatedAt
           /\ visible = <<>> => Len(content) = 1

----------------------------------------------------------------------------
(* Properties of a failing fetchContent *)

\* the collections the keys of T hold
CachedCollections(T) ==
    {JSONparse(getItem(localStorage, k)) :
        k \in {j \in {Key(T), FallbackKey(T)} : HoldsCollection(localStorage, j)}}

\* C17: whenever the remote call of fetch fails (network failure or non-2xx
\* answer), fetch ends with error holding a message and with content being
\* either a cached collection or the empty list.
C17_FailedFetchIsVisible ==
    (last.op = "fetch" /\ last.outcome \in {"netfail", "non2xx"})
        => /\ error # null
           /\ content \in CachedCollections(last.type) \cup {<<>>}

\* this step ends a fetchContent in which the remote call, the parse of the
\* body or the parse of the primary cache threw
FetchCaught ==
    /\ last'.op = "fetch"
    /\ last'.phase # "pending"
    /\ \/ last'.outcome \in {"netfail", "badbody"}
       \/ /\ last'.outcome \in {"none", "non2xx"}
          /\ Truthy(getItem(localStorage, Key(last'.type)))
          /\ ParseThrows(getItem(localStorage, Key(last'.type)))

\* err.message of what was thrown
ThrownMessage(outcome) ==
    IF outcome = "netfail" THEN NetworkErrorMessage ELSE SyntaxErrorMessage

\* C18: when the remote call, the body parse or the primary-cache parse throws
\* during fetch(T), error becomes the thrown error's message and the fallback
\* key of T is read: content becomes the fallback collection if the key holds
\* one and is left as it was otherwise; the primary collection is not used.
C18_CatchReadsFallbackOnly ==
    [][FetchCaught =>
         /\ error' = ThrownMessage(last'.outcome)
         /\ content' = IF HoldsCollection(localStorage, FallbackKey(last'.type))
                       THEN JSONparse(getItem(localStorage, FallbackKey(last'.type)))
                       ELSE content]_vars

\* the body of a GET did not parse, and content is the fallback collection
\* although the primary key holds another one
C18_Witness ==
    /\ last.op = "fetch"
    /\ last.outcome = "badbody"
    /\ error = SyntaxErrorMessage
    /\ HoldsCollection(localStorage, Key(last.type))
    /\ content = <<StoredItem(last.type, "3")>>
    /\ content # CachedItems(last.type)

\* the text under key k does not parse
Unparsable(k) == Truthy(getItem(localStorage, k)) /\ ParseThrows(getItem(localStorage, k))

\* this step ends a fetchContent that read the primary key of its type
FetchReadPrimary ==
    /\ last'.op = "fetch"
    /\ last'.phase # "pending"
    /\ last'.outcome \in {"none", "non2xx"}

\* C19: a cache value that does not parse is treated as an absent one: a
\* fetch(T) that finds an unparsable primary value ends with the content and
\* error that the same fetch ends with when the primary key is missing, and a
\* fetch that finds an unparsable fallback value ends as with a missing
\* fallback key.
C19_UnparsableIsAbsent ==
    [][/\ (FetchReadPrimary /\ Unparsable(Key(last'.type)))
          => LET absent == CacheResult(last'.type, content, error,
                                       setItem(localStorage, Key(last'.type), StoredNull))
             IN content' = absent.content /\ error' = absent.error
       /\ (FetchCaught /\ Unparsable(FallbackKey(last'.type)))
          => LET absent == CatchResult(last'.type, ThrownMessage(last'.outcome), content,
                                       setItem(localStorage, FallbackKey(last'.type), StoredNull))
             IN content' = absent.content /\ error' = absent.error]_vars

\* C20: no operation of the hook (fetch, add, update, remove, type change)
\* ever writes a "ignux_<contentType>_fallback" key: every step leaves every
\* fallback key with the value it had, so each keeps its initial value.
C20_FallbackNeverWritten ==
    [][\A T \in ContentTypes :
         getItem(localStorage', FallbackKey(T)) = getItem(localStorage, FallbackKey(T))]_vars

\* a successful GET has replaced the primary cache and the fallback key
\* still holds its own, older collection
C20_Witness ==
    /\ last.op = "fetch"
    /\ last.outcome = "ok"
    /\ last.body # <<>>
    /\ PrimaryOf(last.type) = JSONstringify(last.body)
    /\ getItem(localStorage, FallbackKey(last.type)) = JSONstringify(<<StoredItem(last.type, "3")>>)

----------------------------------------------------------------------------
(* Properties of the API client *)

\* C16: every operation of the API client returns the parsed body on a 2xx
\* answer (generateWhatsAppLink: the link in it) and signals an error to its
\* caller on any non-2xx answer or network failure.
C16_ApiSignalsEveryFailure ==
    (last.op \in ApiOps /\ last.phase # "pending")
        => /\ last.outcome \in {"non2xx", "netfail"} => last.phase = "threw"
           /\ (last.outcome = "ok" /\ last.body[1] # <<>> /\ last.op # "generateWhatsAppLink")
                 => (last.phase = "returned" /\ last.body[2] = last.body[1])
           /\ (last.outcome = "ok" /\ last.body[1] = [data |-> [whatsapp_url |-> WhatsAppUrl]]
                  /\ last.op = "generateWhatsAppLink")
                 => (last.phase = "returned" /\ last.body[2] = WhatsAppUrl)

----------------------------------------------------------------------------
(* Properties of overlapping calls *)

\* C21: a request that is in flight when contentType changes is neither
\* aborted nor is its result discarded: when the successful answer to
\* GET <endpoint>/A arrives while the current type is another one, content
\* becomes A's body, so the state "current type B, content holds A's answer"
\* is reached (C21_Witness).
C21_StaleResponseOverwrites ==
    (last.op = "fetch" /\ last.outcome = "ok" /\ last.type # contentType)
        => content = last.body

\* the type changed from portfolio to blog, fetch(blog) has completed, and the
\* late answer for portfolio has then put portfolio's items in content
C21_Witness ==
    /\ contentType = "blog"
    /\ ncalls = 2
    /\ inflight = {}
    /\ last.op = "fetch"
    /\ last.type = "portfolio"
    /\ last.outcome = "ok"
    /\ content # <<>>
    /\ \A i \in 1..Len(content) : LoadedUnder(content[i], "portfolio")

\* C22: two adds invoked against the same visible content (the second starts
\* before any render shows the first one's item) each compute from that
\* snapshot: the second one's collection is its own item in front of the
\* visible items, without the first one's item, in content and in the primary
\* cache; the state where both adds returned and one item is lost is reached
\* (C22_Witness).
C22_SecondAddComputesFromSnapshot ==
    (last.op = "add" /\ last.body[2] # "")
        => /\ Len(content) = Len(visible) + 1
           /\ Rest(content) = visible
           /\ PrimaryOf(last.type) = JSONstringify(content)

\* without an endpoint two adds have returned, the first at millisecond 0 and
\* the second at millisecond 1, and content and the cache hold the second item
\* only
C22_Witness ==
    /\ ~apiUrl
    /\ last.op = "add"
    /\ last.phase = "returned"
    /\ last.body[2] = DateNowString(0)
    /\ last.id = DateNowString(1)
    /\ visible = <<>>
    /\ Len(content) = 1
    /\ content[1].id = DateNowString(1)
    /\ Len(CachedItems(last.type)) = 1
    /\ CachedItems(last.type)[1].id = DateNowString(1)

----------------------------------------------------------------------------
(* Properties of updateContent *)

\* new is old with the fields of updates laid over it and updatedAt read from
\* the clock
IsPatched(new, old, updates) ==
    /\ DOMAIN new = DOMAIN old \cup DOMAIN updates \cup {"updatedAt"}
    /\ new.updatedAt = ToISOString(clock)
    /\ \A k \in DOMAIN updates \ {"updatedAt"} : new[k] = updates[k]
    /\ \A k \in DOMAIN old \ (DOMAIN updates \cup {"updatedAt"}) : new[k] = old[k]

C24_CreationFieldsFixed ==
    /\ last.op = "update"
         => /\ Len(content) = Len(visible)
            /\ \A i \in 1..Len(visible) :
                  /\ content[i].id = visible[i].id
                  /\ content[i].createdAt = visible[i].createdAt
    /\ last.op = "add"
         => \E t \in Times : content[1].id = DateNowString(t)

----------------------------------------------------------------------------
(* Properties of the order of effects *)

\* C25: in add, update and remove the update of content and the write of the
\* primary cache happen before the remote request is issued: while the request
\* is pending (which may be for ever) content and the primary cache hold the
\* mutated collection.
C25_MutationBeforeRequest ==
    (last.op \in Writes /\ last.phase = "pending")
        => /\ \E r \in inflight : r.op = last.op /\ r.id = last.id
           /\ HoldsMutation
           /\ PrimaryOf(last.type) = JSONstringify(content)

\* a DELETE is pending and the item is already gone from content and the cache
C25_Witness ==
    /\ last.op = "remove"
    /\ last.phase = "pending"
    /\ \E r \in inflight : r.op = "remove" /\ r.id = last.id
    /\ ~IdAbsent(visible, last.id)
    /\ IdAbsent(content, last.id)
    /\ Len(content) < Len(visible)
    /\ PrimaryOf(last.type) = JSONstringify(content)

----------------------------------------------------------------------------
(* Properties of the cache across content types *)

\* C26: the primary cache of a type T holds only items of T (from a response
\* for T, from T's earlier cache value, or added while T's collection was
\* loaded): no key of T ever holds an item that was loaded under another type.
C26_NoCrossTypeLeak ==
    \A T \in ContentTypes :
        HoldsCollection(localStorage, Key(T))
            => \A i \in 1..Len(CachedItems(T)), A \in ContentTypes \ {T} :
                  ~LoadedUnder(CachedItems(T)[i], A)

----------------------------------------------------------------------------
(* Properties of loading and error *)

\* C27: loading reflects the fetches in flight: whenever loading is false no
\* GET of a fetch is pending, also when a refetch or a type change started a
\* second fetch before the first one's request resolved.
C27_LoadingFalseMeansIdle == ~loading => ~FetchPending


\* C28: error is never reset: once a fetch has recorded a message, error
\* holds a message after every later step, a fetch that succeeds from the
\* remote and a change of content type included; and no step of add, update
\* or remove (the call or the settlement of its request) changes error or
\* loading.
C28_ErrorNeverReset ==
    [][/\ error # null => error' # null
       /\ last'.op \in Writes => (error' = error /\ loading' = loading)]_vars

\* after a failed fetch and a type change, a GET for the new type succeeded
\* and the old message is still there
C28_Witness ==
    /\ error # null
    /\ contentType = "blog"
    /\ last.op = "fetch"
    /\ last.type = "blog"
    /\ last.outcome = "ok"
    /\ inflight = {}
    /\ ~loading


----------------------------------------------------------------------------
(* Properties of the keys a fetch writes *)

\* C29: a fetch writes only the cache key of the type it was issued for:
\* under any interleaving of type changes and late responses, a step of a
\* fetch changes a key only when its GET was answered successfully, the key is
\* then the primary key of the request's type and its new value is the body;
\* a fetch without a successful response changes no key.
C29_FetchWritesOwnKeyOnly ==
    [][last'.op = "fetch" =>
         /\ \A k \in Keys :
              getItem(localStorage', k) # getItem(localStorage, k)
                  => last'.outcome = "ok" /\ k = Key(last'.type)
         /\ last'.outcome = "ok"
              => getItem(localStorage', Key(last'.type)) = JSONstringify(last'.body)]_vars

\* the answer to GET /portfolio arrived after the switch to blog: it is stored
\* under ignux_portfolio, and ignux_blog holds something else
C29_Witness ==
    /\ contentType = "blog"
    /\ last.op = "fetch"
    /\ last.type = "portfolio"
    /\ last.outcome = "ok"
    /\ last.body # <<>>
    /\ PrimaryOf("portfolio") = JSONstringify(last.body)
    /\ PrimaryOf("blog") # JSONstringify(last.body)


----------------------------------------------------------------------------
(* Properties of the agreement of cache and state *)

\* C30 as stated: when add, update and remove run one at a time with no type
\* change in between, after each call the collection in the primary cache of
\* the current type equals content, whether the request succeeded, failed, or
\* no endpoint is set.
C30_CacheEqualsContent ==
    (last.op \in Writes /\ last.phase # "pending" /\ last.type = contentType)
        => /\ HoldsCollection(localStorage, Key(contentType))
           /\ JSONparse(PrimaryOf(contentType)) = content

\* C30 amended: after each such call the primary cache of the current type is
\* the JSON text of content, which parses to content without the fields whose
\* value is undefined.
C30_CacheIsSerializedContent ==
    (last.op \in Writes /\ last.phase # "pending" /\ last.type = contentType)
        => /\ HoldsCollection(localStorage, Key(contentType))
           /\ PrimaryOf(contentType) = JSONstringify(content)

\* an add was rendered, then a remove of a stored item was answered with a
\* non-2xx status: two items are left in content and in the cache
C30_Witness ==
    /\ last.op = "remove"
    /\ last.outcome = "non2xx"
    /\ last.phase = "returned"
    /\ last.type = contentType
    /\ Len(visible) = 3
    /\ Len(content) = 2
    /\ JSONparse(PrimaryOf(contentType)) = content

====
